---- MODULE Spec2Model ----
(***************************************************************************)
(* The Pet Store service (src/service): the Pet model with its             *)
(* serialize/deserialize pair, the SQLAlchemy session the model methods    *)
(* commit through, and the six request handlers of routes.py.              *)
(***************************************************************************)
EXTENDS Integers, Sequences, FiniteSets, TLC

VARIABLES
    db,       \* the committed rows of the pet table: a set of Pet records
    nextId,   \* the next value of the primary-key sequence of pet.id
    session,  \* db.session: [dirty: modified persistent Pets, inactive: BOOLEAN]
    scope,    \* lifetime of the app context that owns db.session
    issued,   \* ids assigned by the successful creates, in order (history)
    req,      \* the request handled last
    resp,     \* the response to it
    step,     \* number of requests handled
    inflight  \* per worker: the request it is handling, its own db.session

vars == <<db, nextId, session, scope, issued, req, resp, step, inflight>>

(***************************************************************************)
(* Python / JSON values.  Every value carries its type, so that            *)
(* isinstance(x, bool) and the TypeError / AttributeError cases of the     *)
(* source can be decided as Python decides them.                           *)
(***************************************************************************)
None == [type |-> "NoneType", val |-> "None"]
PyStr(s) == [type |-> "str", val |-> s]
PyBool(b) == [type |-> "bool", val |-> b]
PyInt(n) == [type |-> "int", val |-> n]
\* a key that is not in the mapping (data[key] raises KeyError)
Missing == [type |-> "missing", val |-> "missing"]

\* Pet.id before the row is inserted (self.id = None)
NoneId == -1

(***************************************************************************)
(* class Gender(Enum)                                                      *)
(***************************************************************************)
GenderNames == {"MALE", "FEMALE", "UNKNOWN"}

Gender(name) == [type |-> "Gender", val |-> name]

\* Names that getattr finds on the class Gender although they are no members:
\* what every Enum class carries besides its members.
EnumClassAttributes == {"__members__", "__doc__", "__name__", "__module__"}

ClassAttribute(name) == [type |-> "attribute", val |-> name]

\* getattr(Gender, v): the member, any other attribute of the class, or an error
getattr_Gender(v) ==
    IF v.type # "str" THEN [raised |-> "TypeError", value |-> None]
    ELSE IF v.val \in GenderNames THEN [raised |-> "none", value |-> Gender(v.val)]
    ELSE IF v.val \in EnumClassAttributes
         THEN [raised |-> "none", value |-> ClassAttribute(v.val)]
    ELSE [raised |-> "AttributeError", value |-> None]

(***************************************************************************)
(* datetime.date                                                           *)
(***************************************************************************)
Date(y, m, d) == [type |-> "date", val |-> <<y, m, d>>]

\* the date strings of the model and the dates they denote
IsoStrings == {"2020-01-01", "2021-12-31"}

ParseIso(s) ==
    CASE s = "2020-01-01" -> Date(2020, 1, 1)
      [] s = "2021-12-31" -> Date(2021, 12, 31)

\* date.fromisoformat(v)
fromisoformat(v) ==
    IF v.type # "str" THEN [raised |-> "TypeError", value |-> None]
    ELSE IF v.val \in IsoStrings THEN [raised |-> "none", value |-> ParseIso(v.val)]
    ELSE [raised |-> "ValueError", value |-> None]

\* a rendering without zero padding
isoformat_unpadded(d) ==
    CASE d.val = <<2020, 1, 1>> -> "2020-1-1"
      [] d.val = <<2021, 12, 31>> -> "2021-12-31"

\* date.isoformat()
isoformat(d) ==
    CASE d.val = <<2020, 1, 1>> -> "2020-01-01"
      [] d.val = <<2021, 12, 31>> -> "2021-12-31"

(***************************************************************************)
(* class Pet: the attributes of one instance                               *)
(***************************************************************************)
\* Pet(): a new instance, no attribute set
Pet ==
    [id |-> NoneId, name |-> None, category |-> None, available |-> None,
     gender |-> None, birthday |-> None]

\* a request body that is a JSON object; a key it lacks is Missing
Dict(id, name, category, available, gender, birthday) ==
    [shape |-> "dict", id |-> id, name |-> name, category |-> category,
     available |-> available, gender |-> gender, birthday |-> birthday]

\* the outcome of a method call: the instance afterwards and the exception raised
Raise(self, exc, msg) == [pet |-> self, raised |-> exc, msg |-> msg]
Return(self) == [pet |-> self, raised |-> "none", msg |-> ""]

\* a type test that lets every value through
isinstance_object(v) == TRUE

\* isinstance(v, bool)
isinstance_bool(v) == v.type = "bool"

\* an assignment that also takes the "id" of the mapping
assign_name_and_id(self, data) ==
    [self EXCEPT !.name = data.name,
                 !.id = IF data.id.type = "int" THEN data.id.val ELSE @]

\* self.name = data["name"]: the first key deserialize reads; "id" is none of
\* the keys it reads
assign_name(self, data) == [self EXCEPT !.name = data.name]

\* the try block of Pet.deserialize: the assignments in source order, each
\* visible to the caller even when a later one raises; subscripting a value
\* that is no mapping raises TypeError, a key the mapping lacks KeyError
try_block(self, data) ==
    IF data.shape # "dict"
    THEN Raise(self, "TypeError", "")
    ELSE IF data.name = Missing
    THEN Raise(self, "KeyError", "name")
    ELSE LET p1 == assign_name(self, data) IN
    IF data.category = Missing
    THEN Raise(p1, "KeyError", "category")
    ELSE LET p2 == [p1 EXCEPT !.category = data.category] IN
    IF data.available = Missing
    THEN Raise(p2, "KeyError", "available")
    ELSE IF ~isinstance_bool(data.available)
    THEN Raise(p2, "DataValidationError", "Invalid type for boolean [available]")
    ELSE LET p3 == [p2 EXCEPT !.available = data.available] IN
    IF data.gender = Missing
    THEN Raise(p3, "KeyError", "gender")
    ELSE LET g == getattr_Gender(data.gender) IN
    IF g.raised # "none"
    THEN Raise(p3, g.raised, "")
    ELSE LET p4 == [p3 EXCEPT !.gender = g.value] IN
    IF data.birthday = Missing
    THEN Raise(p4, "KeyError", "birthday")
    ELSE LET b == fromisoformat(data.birthday) IN
    IF b.raised # "none"
    THEN Raise(p4, b.raised, "Invalid isoformat string")
    ELSE Return([p4 EXCEPT !.birthday = b.value])

\* except clauses without the one for KeyError: it escapes
except_without_KeyError(t) ==
    CASE t.raised = "AttributeError" ->
             Raise(t.pet, "DataValidationError", "Invalid attribute")
      [] t.raised = "TypeError" ->
             Raise(t.pet, "DataValidationError", "bad or no data")
      [] OTHER -> t

\* except clauses that turn TypeError into nothing: it escapes
except_without_TypeError(t) ==
    CASE t.raised = "AttributeError" ->
             Raise(t.pet, "DataValidationError", "Invalid attribute")
      [] t.raised = "KeyError" ->
             Raise(t.pet, "DataValidationError", "missing " \o t.msg)
      [] OTHER -> t

\* the except clauses of Pet.deserialize: AttributeError, KeyError and
\* TypeError become DataValidationError, anything else leaves as it is
except_clauses(t) ==
    CASE t.raised = "AttributeError" ->
             Raise(t.pet, "DataValidationError", "Invalid attribute")
      [] t.raised = "KeyError" ->
             Raise(t.pet, "DataValidationError", "missing " \o t.msg)
      [] t.raised = "TypeError" ->
             Raise(t.pet, "DataValidationError", "bad or no data")
      [] OTHER -> t

\* Pet.deserialize
deserialize(self, data) == except_clauses(try_block(self, data))

\* Pet.serialize: self.gender.name and self.birthday.isoformat() need a Gender
\* member and a date
serialize(self) ==
    IF self.gender.type # "Gender" \/ self.birthday.type # "date"
    THEN [raised |-> "AttributeError", body |-> None]
    ELSE [raised |-> "none",
          body |-> Dict(PyInt(self.id), self.name, self.category, self.available,
                        PyStr(self.gender.val), PyStr(isoformat(self.birthday)))]

\* a request body that is JSON but no object (null, a string, a list, a number)
NotDict(shape) ==
    [shape |-> shape, id |-> Missing, name |-> Missing, category |-> Missing,
     available |-> Missing, gender |-> Missing, birthday |-> Missing]

\* whether deserialize assigns at least one attribute of self (self.name first)
assigns(data) == data.shape = "dict" /\ data.name # Missing

(***************************************************************************)
(* The pet table and db.session.                                           *)
(*                                                                         *)
(* A Pet returned by a query is persistent: assigning one of its           *)
(* attributes marks it modified in the session, which keeps it until a     *)
(* flush.  commit() flushes every modified instance of the session, not    *)
(* only the one the caller holds.  A flush that fails rolls the            *)
(* transaction back and leaves the session inactive: every later use of    *)
(* it raises until rollback() is called, and no code of the service calls  *)
(* rollback().                                                             *)
(***************************************************************************)
CleanSession == [dirty |-> {}, inactive |-> FALSE]

FailedSession == [dirty |-> {}, inactive |-> TRUE]

\* the column types of the table: what a flush can write
Storable(p) ==
    /\ p.name.type = "str"
    /\ p.category.type = "str"
    /\ p.available.type = "bool"
    /\ p.gender.type = "Gender"
    /\ p.birthday.type = "date"

\* an attribute of a persistent instance was assigned
modified(s, pet) ==
    [s EXCEPT !.dirty = {p \in @ : p.id # pet.id} \cup {pet}]

\* a key taken from the rows of the table: one more than the largest id
max_id_plus_one(database, seq) ==
    IF database = {} THEN 1
    ELSE 1 + (CHOOSE n \in {r.id : r \in database} : \A r \in database : r.id <= n)

\* the primary key a new row gets: the next value of the sequence, whatever
\* the rows of the table are
nextval(database, seq) == seq

\* the rows a query of this session sees: the table, with the session's own
\* pending changes
visible(s, database) ==
    {r \in database : \A p \in s.dirty : p.id # r.id} \cup s.dirty

\* the flush that precedes every query the session sends to the database
autoflush(s) ==
    IF s.inactive THEN [raised |-> "PendingRollbackError", session |-> s]
    ELSE IF \E p \in s.dirty : ~Storable(p)
    THEN [raised |-> "StatementError", session |-> FailedSession]
    ELSE [raised |-> "none", session |-> s]

\* db.session.commit(), after session.add of `added` and session.delete of `deleted`
commit(s, database, seq, added, deleted) ==
    LET gone == {d.id : d \in deleted}
        updates == {p \in s.dirty : p.id \notin gone}
        inserts == {[p EXCEPT !.id = nextval(database, seq)] : p \in added}
        kept == {r \in database : r.id \notin gone /\ \A p \in updates : p.id # r.id}
    IN  IF s.inactive
        THEN [raised |-> "PendingRollbackError", db |-> database, nextId |-> seq,
              session |-> s, added |-> added]
        ELSE IF \E p \in updates \cup added : ~Storable(p)
        THEN [raised |-> "StatementError", db |-> database, nextId |-> seq,
              session |-> FailedSession, added |-> added]
        ELSE [raised |-> "none", db |-> kept \cup updates \cup inserts,
              nextId |-> seq + Cardinality(added), session |-> CleanSession,
              added |-> inserts]

\* Pet.create
create(self, s, database, seq) ==
    commit(s, database, seq, {[self EXCEPT !.id = NoneId]}, {})

\* Pet.update
update(self, s, database, seq) ==
    IF self.id = NoneId \/ self.id = 0
    THEN [raised |-> "DataValidationError", db |-> database, nextId |-> seq,
          session |-> s, added |-> {}]
    ELSE commit(s, database, seq, {}, {})

\* Pet.delete
delete(self, s, database, seq) ==
    commit(s, database, seq, {}, {self})

\* Pet.find: cls.query.get(pet_id) answers from the session when it holds the
\* instance, and asks the database otherwise
find(s, database, pet_id) ==
    IF \E p \in s.dirty : p.id = pet_id
    THEN [raised |-> "none", found |-> TRUE,
          pet |-> CHOOSE p \in s.dirty : p.id = pet_id, session |-> s]
    ELSE LET f == autoflush(s) IN
         IF f.raised # "none"
         THEN [raised |-> f.raised, found |-> FALSE, pet |-> Pet, session |-> f.session]
         ELSE IF \E r \in database : r.id = pet_id
         THEN [raised |-> "none", found |-> TRUE,
               pet |-> CHOOSE r \in database : r.id = pet_id, session |-> s]
         ELSE [raised |-> "none", found |-> FALSE, pet |-> Pet, session |-> s]

\* Pet.all
all(s, database) ==
    LET f == autoflush(s) IN
    IF f.raised # "none"
    THEN [raised |-> f.raised, pets |-> {}, session |-> f.session]
    ELSE [raised |-> "none", pets |-> visible(s, database), session |-> s]

\* cls.query.filter(column == value): the rows the session sees with that value
query_filter(s, database, column, value) ==
    LET a == all(s, database) IN
    IF a.raised # "none" THEN a
    ELSE [a EXCEPT !.pets = {p \in @ : p[column] = value}]

\* Pet.find_by_name
find_by_name(s, database, name) == query_filter(s, database, "name", name)

\* Pet.find_by_category
find_by_category(s, database, category) ==
    query_filter(s, database, "category", category)

\* Pet.find_by_availability
find_by_availability(s, database, available) ==
    query_filter(s, database, "available", PyBool(available))

\* Pet.find_by_gender
find_by_gender(s, database, gender) == query_filter(s, database, "gender", gender)

(***************************************************************************)
(* routes.py: the request handlers.  Each yields the response and the      *)
(* store, sequence and session it leaves behind.                           *)
(***************************************************************************)
HTTP_200_OK == 200
HTTP_201_CREATED == 201
HTTP_204_NO_CONTENT == 204
HTTP_400_BAD_REQUEST == 400
HTTP_404_NOT_FOUND == 404
HTTP_405_METHOD_NOT_ALLOWED == 405
HTTP_409_CONFLICT == 409
HTTP_415_UNSUPPORTED_MEDIA_TYPE == 415
HTTP_500_INTERNAL_SERVER_ERROR == 500

\* request.headers: a set of <<name, value>> pairs
Header(name, value) == {<<name, value>>}

\* no body in the request or in the response
NoBody == NotDict("none")

\* the error handlers of the application: a DataValidationError that leaves a
\* handler becomes 400, the MethodNotAllowed of the router 405, any other
\* exception 500
error_status(exc) ==
    IF exc = "DataValidationError" THEN HTTP_400_BAD_REQUEST
    ELSE IF exc = "MethodNotAllowed" THEN HTTP_405_METHOD_NOT_ALLOWED
    ELSE HTTP_500_INTERNAL_SERVER_ERROR

Outcome(status, raised, body, results, location, database, seq, s, ids) ==
    [status |-> status, raised |-> raised, body |-> body, results |-> results,
     location |-> location, db |-> database, nextId |-> seq, session |-> s,
     issued |-> ids]

\* abort(status): the response carries it, nothing is written
Abort(status, raised, database, seq, s) ==
    Outcome(status, raised, NoBody, {}, NoneId, database, seq, s, <<>>)

\* an exception that leaves the handler
Fail(raised, database, seq, s) ==
    Abort(error_status(raised), raised, database, seq, s)

\* a comparison of the media type alone, parameters dropped
check_media_type(headers, content_type) ==
    \E h \in headers :
        /\ h[1] = "Content-Type"
        /\ h[2] \in {content_type, content_type \o "; charset=utf-8"}

\* check_content_type: TRUE when the handler may go on, FALSE when it aborts
check_content_type(headers, content_type) ==
    IF \A h \in headers : h[1] # "Content-Type" THEN FALSE
    ELSE (CHOOSE h \in headers : h[1] = "Content-Type")[2] = content_type

\* str.lower() on the query values of the model
lower(str) ==
    CASE str = "TRUE" -> "true"
      [] str = "True" -> "true"
      [] str = "Yes" -> "yes"
      [] str = "False" -> "false"
      [] OTHER -> str

\* str.upper() on the query values of the model
upper(str) ==
    CASE str = "female" -> "FEMALE"
      [] str = "Female" -> "FEMALE"
      [] str = "male" -> "MALE"
      [] str = "xyz" -> "XYZ"
      [] OTHER -> str

\* request.args: each parameter is None when the query string lacks it
Args(category, name, available, gender) ==
    [category |-> category, name |-> name, available |-> available,
     gender |-> gender]

NoArgs == Args(None, None, None, None)

\* the truth value of request.args.get(...): None and "" are false
truthy(v) == v.type = "str" /\ v.val # ""

\* a membership test on the value as sent, without lower()
available_value_as_sent(available) == available.val \in {"true", "yes", "1"}

\* available.lower() in ["true", "yes", "1"]
available_value(available) == lower(available.val) \in {"true", "yes", "1"}

\* Gender[gender.upper()]
Gender_getitem(gender) ==
    IF upper(gender.val) \in GenderNames
    THEN [raised |-> "none", value |-> Gender(upper(gender.val))]
    ELSE [raised |-> "KeyError", value |-> None]

\* the if / elif chain of list_pets: the query it runs
select_pets(args, s, database) ==
    IF truthy(args.category) THEN find_by_category(s, database, args.category)
    ELSE IF truthy(args.name) THEN find_by_name(s, database, args.name)
    ELSE IF truthy(args.available)
    THEN find_by_availability(s, database, available_value(args.available))
    ELSE IF truthy(args.gender)
    THEN LET g == Gender_getitem(args.gender) IN
         IF g.raised # "none"
         THEN [raised |-> g.raised, pets |-> {}, session |-> s]
         ELSE find_by_gender(s, database, g.value)
    ELSE all(s, database)

\* GET /pets
list_pets(args, s, database, seq) ==
    LET a == select_pets(args, s, database) IN
    IF a.raised # "none" THEN Fail(a.raised, database, seq, a.session)
    ELSE Outcome(HTTP_200_OK, "none", NoBody, {serialize(p).body : p \in a.pets},
                 NoneId, database, seq, a.session, <<>>)

\* GET /pets/<pet_id>
get_pets(pet_id, s, database, seq) ==
    LET f == find(s, database, pet_id) IN
    IF f.raised # "none" THEN Fail(f.raised, database, seq, f.session)
    ELSE IF ~f.found THEN Abort(HTTP_404_NOT_FOUND, "NotFound", database, seq, f.session)
    ELSE LET js == serialize(f.pet) IN
    IF js.raised # "none" THEN Fail(js.raised, database, seq, f.session)
    ELSE Outcome(HTTP_200_OK, "none", js.body, {}, NoneId, database, seq, f.session, <<>>)

\* POST /pets
create_pets(headers, data, s, database, seq) ==
    IF ~check_content_type(headers, "application/json")
    THEN Abort(HTTP_415_UNSUPPORTED_MEDIA_TYPE, "UnsupportedMediaType", database, seq, s)
    ELSE LET d == deserialize(Pet, data) IN
    IF d.raised # "none" THEN Fail(d.raised, database, seq, s)
    ELSE LET c == create(d.pet, s, database, seq) IN
    IF c.raised # "none" THEN Fail(c.raised, c.db, c.nextId, c.session)
    ELSE LET pet == CHOOSE p \in c.added : TRUE IN
         Outcome(HTTP_201_CREATED, "none", serialize(pet).body, {}, pet.id,
                 c.db, c.nextId, c.session, <<pet.id>>)

\* PUT /pets/<pet_id>
update_pets(pet_id, headers, data, s, database, seq) ==
    IF ~check_content_type(headers, "application/json")
    THEN Abort(HTTP_415_UNSUPPORTED_MEDIA_TYPE, "UnsupportedMediaType", database, seq, s)
    ELSE LET f == find(s, database, pet_id) IN
    IF f.raised # "none" THEN Fail(f.raised, database, seq, f.session)
    ELSE IF ~f.found THEN Abort(HTTP_404_NOT_FOUND, "NotFound", database, seq, f.session)
    ELSE LET d == deserialize(f.pet, data)
             s2 == IF assigns(data) THEN modified(f.session, d.pet) ELSE f.session
         IN
    IF d.raised # "none" THEN Fail(d.raised, database, seq, s2)
    ELSE LET u == update(d.pet, s2, database, seq) IN
    IF u.raised # "none" THEN Fail(u.raised, u.db, u.nextId, u.session)
    ELSE Outcome(HTTP_200_OK, "none", serialize(d.pet).body, {}, NoneId,
                 u.db, u.nextId, u.session, <<>>)

\* DELETE /pets/<pet_id>
delete_pets(pet_id, s, database, seq) ==
    LET f == find(s, database, pet_id) IN
    IF f.raised # "none" THEN Fail(f.raised, database, seq, f.session)
    ELSE IF ~f.found
    THEN Outcome(HTTP_204_NO_CONTENT, "none", NoBody, {}, NoneId, database, seq,
                 f.session, <<>>)
    ELSE LET x == delete(f.pet, f.session, database, seq) IN
    IF x.raised # "none" THEN Fail(x.raised, x.db, x.nextId, x.session)
    ELSE Outcome(HTTP_204_NO_CONTENT, "none", NoBody, {}, NoneId, x.db, x.nextId,
                 x.session, <<>>)

\* PUT /pets/<pet_id>/purchase
purchase_pets(pet_id, s, database, seq) ==
    LET f == find(s, database, pet_id) IN
    IF f.raised # "none" THEN Fail(f.raised, database, seq, f.session)
    ELSE IF ~f.found THEN Abort(HTTP_404_NOT_FOUND, "NotFound", database, seq, f.session)
    ELSE IF f.pet.available # PyBool(TRUE)
    THEN Abort(HTTP_409_CONFLICT, "Conflict", database, seq, f.session)
    ELSE LET pet == [f.pet EXCEPT !.available = PyBool(FALSE)]
             u == update(pet, modified(f.session, pet), database, seq)
         IN
    IF u.raised # "none" THEN Fail(u.raised, u.db, u.nextId, u.session)
    ELSE Outcome(HTTP_200_OK, "none", serialize(pet).body, {}, NoneId,
                 u.db, u.nextId, u.session, <<>>)

(***************************************************************************)
(* The requests of the model                                               *)
(***************************************************************************)
\* requests handled in one behaviour
MaxSteps == 4

Fido ==
    Dict(Missing, PyStr("fido"), PyStr("dog"), PyBool(TRUE), PyStr("MALE"),
         PyStr("2020-01-01"))

\* a body that carries an "id" of the client's choosing
Rex ==
    Dict(PyInt(2), PyStr("rex"), PyStr("cat"), PyBool(FALSE), PyStr("FEMALE"),
         PyStr("2021-12-31"))

\* {"name": null}
NullName == Dict(Missing, None, Missing, Missing, Missing, Missing)

Bodies ==
    { Fido, Rex,
      [Fido EXCEPT !.available = PyStr("true")],
      [Rex EXCEPT !.available = PyInt(1)],
      [Fido EXCEPT !.gender = PyStr("male")],
      [Rex EXCEPT !.gender = PyStr("XXX")],
      [Rex EXCEPT !.gender = PyStr("__members__")],
      [Fido EXCEPT !.gender = PyStr("__members__"), !.birthday = Missing],
      NullName }

JsonHeaders == Header("Content-Type", "application/json")

OtherHeaders ==
    { {}, Header("Content-Type", "text/plain"),
      Header("Content-Type", "application/json; charset=utf-8"),
      Header("Accept", "application/json") }

\* the <<headers, body>> pairs of the POST and PUT requests
Uploads ==
    ({JsonHeaders} \X Bodies) \cup (OtherHeaders \X {Fido, NullName})

\* the ids of the request paths: 0, which the sequence never yields, and
\* every id it has yielded
PathIds == 0 .. (nextId - 1)

\* the HTTP method and the URL rule of the request that reaches a handler
MethodOf(op) ==
    CASE op = "list" -> "GET"
      [] op = "get" -> "GET"
      [] op = "create" -> "POST"
      [] op = "update" -> "PUT"
      [] op = "delete" -> "DELETE"
      [] op = "purchase" -> "PUT"
      [] OTHER -> ""

RuleOf(op) ==
    CASE op \in {"list", "create"} -> "/pets"
      [] op \in {"get", "update", "delete"} -> "/pets/<int:pet_id>"
      [] op = "purchase" -> "/pets/<int:pet_id>/purchase"
      [] OTHER -> ""

Request(op, pet_id, headers, data) ==
    [op |-> op, pet_id |-> pet_id, headers |-> headers, data |-> data,
     args |-> NoArgs, method |-> MethodOf(op), rule |-> RuleOf(op),
     self |-> Pet]

\* a GET /pets request with its query string
ListRequest(args) == [Request("list", NoneId, {}, NoBody) EXCEPT !.args = args]

\* the query strings of the List requests
Queries ==
    { NoArgs,
      Args(PyStr("cat"), None, None, None),
      Args(None, None, PyStr("true"), None),
      Args(None, None, None, PyStr("xyz")) }

(***************************************************************************)
(* The state machine: one action per handler                               *)
(***************************************************************************)
\* the workers that serve requests side by side, each with a db.session of
\* its own
Workers == {"w1", "w2"}

\* a worker between two requests.  locks: the rows its open transaction has
\* written and not committed; sold and updates count the Purchases it has
\* answered with 200 and the Updates it has accepted (history)
Idle(s, locks) ==
    [pc |-> "idle", op |-> "none", pet_id |-> NoneId, pet |-> Pet, status |-> 0,
     session |-> s, locks |-> locks, sold |-> 0, updates |-> 0]

Init ==
    /\ inflight = [w \in Workers |-> Idle(CleanSession, {})]
    /\ db = {}
    /\ nextId = 1
    /\ session = CleanSession
    /\ scope \in {"request", "process"}
    /\ issued = <<>>
    /\ req = Request("none", NoneId, {}, NoBody)
    /\ resp = [status |-> 0, raised |-> "none", body |-> NoBody, results |-> {},
               location |-> NoneId]
    /\ step = 0

\* The handler has returned.  db.session belongs to the app context: when the
\* request runs in a context of its own, the context's teardown removes the
\* session; when it runs in the context that init_db pushed and never pops,
\* the session and what it holds outlive the request.
Respond(request, out) ==
    /\ step' = step + 1
    /\ req' = request
    /\ resp' = [status |-> out.status, raised |-> out.raised, body |-> out.body,
                results |-> out.results, location |-> out.location]
    /\ db' = out.db
    /\ nextId' = out.nextId
    /\ issued' = issued \o out.issued
    /\ session' = IF scope = "request" THEN CleanSession ELSE out.session
    /\ UNCHANGED <<scope, inflight>>

Handle(request, out) == step < MaxSteps /\ Respond(request, out)

ListPets ==
    \E args \in Queries :
        Handle(ListRequest(args), list_pets(args, session, db, nextId))

GetPets ==
    \E pet_id \in PathIds :
        Handle(Request("get", pet_id, {}, NoBody),
               get_pets(pet_id, session, db, nextId))

CreatePets ==
    \E u \in Uploads :
        Handle(Request("create", NoneId, u[1], u[2]),
               create_pets(u[1], u[2], session, db, nextId))

UpdatePets ==
    \E pet_id \in PathIds, u \in Uploads :
        Handle(Request("update", pet_id, u[1], u[2]),
               update_pets(pet_id, u[1], u[2], session, db, nextId))

DeletePets ==
    \E pet_id \in PathIds :
        Handle(Request("delete", pet_id, {}, NoBody),
               delete_pets(pet_id, session, db, nextId))

PurchasePets ==
    \E pet_id \in PathIds :
        Handle(Request("purchase", pet_id, {}, NoBody),
               purchase_pets(pet_id, session, db, nextId))

Next ==
    \/ ListPets
    \/ GetPets
    \/ CreatePets
    \/ UpdatePets
    \/ DeletePets
    \/ PurchasePets

Spec == Init /\ [][Next]_vars

(***************************************************************************)
(* Payloads: POST and PUT requests whose JSON body is any combination of   *)
(* a present, absent or ill-typed value under each key, or no object.      *)
(***************************************************************************)
\* requests handled in one behaviour of SpecPayload
MaxPayloadSteps == 2

PayloadNames == {Missing, PyStr("fido")}

PayloadCategories == {Missing, PyStr("dog")}

PayloadAvailables == {Missing, PyBool(TRUE), PyStr("true")}

PayloadGenders == {Missing, PyStr("UNKNOWN"), PyStr("male")}

PayloadBirthdays ==
    {Missing, PyStr("2020-01-01"), PyStr("2020-13-45"), PyInt(20200101)}

\* JSON null, a JSON string, a JSON array, a JSON number
Shapes == {"null", "string", "list", "number"}

Payloads ==
    {Dict(Missing, n, c, a, g, b) :
        n \in PayloadNames, c \in PayloadCategories, a \in PayloadAvailables,
        g \in PayloadGenders, b \in PayloadBirthdays}
    \cup {NotDict(shape) : shape \in Shapes}

CreatePayload ==
    \E data \in Payloads :
        /\ step < MaxPayloadSteps
        /\ Respond(Request("create", NoneId, JsonHeaders, data),
                   create_pets(JsonHeaders, data, session, db, nextId))

UpdatePayload ==
    \E pet_id \in PathIds, data \in Payloads :
        /\ step < MaxPayloadSteps
        /\ Respond(Request("update", pet_id, JsonHeaders, data),
                   update_pets(pet_id, JsonHeaders, data, session, db, nextId))

NextPayload ==
    \/ CreatePayload
    \/ UpdatePayload

SpecPayload == Init /\ [][NextPayload]_vars

(***************************************************************************)
(* Queries: GET /pets with any combination of the four query parameters,   *)
(* on the stores that creates and updates lead to.                         *)
(***************************************************************************)
\* requests handled in one behaviour of SpecQuery
MaxQuerySteps == 3

QueryCategories == {None, PyStr(""), PyStr("cat")}

QueryNames == {None, PyStr("rex")}

QueryAvailables ==
    {None, PyStr("true"), PyStr("True"), PyStr("Yes"), PyStr("1"),
     PyStr("False"), PyStr("maybe")}

QueryGenders ==
    {None, PyStr("female"), PyStr("Female"), PyStr("FEMALE"), PyStr("xyz")}

AllQueries ==
    {Args(c, n, a, g) :
        c \in QueryCategories, n \in QueryNames, a \in QueryAvailables,
        g \in QueryGenders}

\* the bodies of the creates that precede the queries
QueryBodies == {Fido, Rex}

\* a body that update_pets rejects after it has assigned three fields
RejectedBody == [Fido EXCEPT !.gender = PyStr("male")]

CreateQuery ==
    \E data \in QueryBodies :
        /\ step < MaxQuerySteps
        /\ Respond(Request("create", NoneId, JsonHeaders, data),
                   create_pets(JsonHeaders, data, session, db, nextId))

UpdateQuery ==
    \E pet_id \in PathIds :
        /\ step < MaxQuerySteps
        /\ Respond(Request("update", pet_id, JsonHeaders, RejectedBody),
                   update_pets(pet_id, JsonHeaders, RejectedBody, session, db, nextId))

ListQuery ==
    \E args \in AllQueries :
        /\ step < MaxQuerySteps
        /\ Respond(ListRequest(args), list_pets(args, session, db, nextId))

NextQuery ==
    \/ CreateQuery
    \/ UpdateQuery
    \/ ListQuery

SpecQuery == Init /\ [][NextQuery]_vars

(***************************************************************************)
(* Routing: any HTTP method on any of the three pet paths.  The rules are   *)
(* the ones the @app.route decorators register; a method that no rule of    *)
(* the path accepts is answered by the router, no handler runs.             *)
(***************************************************************************)
\* requests handled in one behaviour of SpecRouting
MaxRoutingSteps == 3

\* the rules with PUT accepted on the collection path as well
url_map_put_on_collection ==
    { [rule |-> "/pets", methods |-> {"GET", "PUT"}, endpoint |-> "list"],
      [rule |-> "/pets/<int:pet_id>", methods |-> {"GET"}, endpoint |-> "get"],
      [rule |-> "/pets", methods |-> {"POST"}, endpoint |-> "create"],
      [rule |-> "/pets/<int:pet_id>", methods |-> {"PUT"}, endpoint |-> "update"],
      [rule |-> "/pets/<int:pet_id>", methods |-> {"DELETE"}, endpoint |-> "delete"],
      [rule |-> "/pets/<int:pet_id>/purchase", methods |-> {"PUT"},
       endpoint |-> "purchase"] }

\* app.url_map: one rule per @app.route decorator of a pet handler
url_map ==
    { [rule |-> "/pets", methods |-> {"GET"}, endpoint |-> "list"],
      [rule |-> "/pets/<int:pet_id>", methods |-> {"GET"}, endpoint |-> "get"],
      [rule |-> "/pets", methods |-> {"POST"}, endpoint |-> "create"],
      [rule |-> "/pets/<int:pet_id>", methods |-> {"PUT"}, endpoint |-> "update"],
      [rule |-> "/pets/<int:pet_id>", methods |-> {"DELETE"}, endpoint |-> "delete"],
      [rule |-> "/pets/<int:pet_id>/purchase", methods |-> {"PUT"},
       endpoint |-> "purchase"] }

Rules == {"/pets", "/pets/<int:pet_id>", "/pets/<int:pet_id>/purchase"}

Methods == {"GET", "HEAD", "OPTIONS", "POST", "PUT", "DELETE", "PATCH"}

\* the endpoint that serves the method on the path.  Flask answers HEAD
\* through the GET rule of the path and OPTIONS by itself on every path; for
\* any other method that no rule of the path lists it raises MethodNotAllowed.
match(method, rule) ==
    LET serving == {r \in url_map : r.rule = rule /\ method \in r.methods}
        reading == {r \in url_map : r.rule = rule /\ "GET" \in r.methods}
    IN  IF serving # {} THEN (CHOOSE r \in serving : TRUE).endpoint
        ELSE IF method = "HEAD" /\ reading # {}
             THEN (CHOOSE r \in reading : TRUE).endpoint
        ELSE IF method = "OPTIONS" THEN "options"
        ELSE "MethodNotAllowed"

\* the response to the request: the one of the handler that serves it
dispatch_request(method, rule, pet_id, headers, data, s, database, seq) ==
    LET endpoint == match(method, rule) IN
    CASE endpoint = "list" -> list_pets(NoArgs, s, database, seq)
      [] endpoint = "get" -> get_pets(pet_id, s, database, seq)
      [] endpoint = "create" -> create_pets(headers, data, s, database, seq)
      [] endpoint = "update" ->
             update_pets(pet_id, headers, data, s, database, seq)
      [] endpoint = "delete" -> delete_pets(pet_id, s, database, seq)
      [] endpoint = "purchase" -> purchase_pets(pet_id, s, database, seq)
      [] endpoint = "options" ->
             Outcome(HTTP_200_OK, "none", NoBody, {}, NoneId, database, seq, s, <<>>)
      [] OTHER -> Fail("MethodNotAllowed", database, seq, s)

\* a body whose name and category are empty strings
Blank == [Fido EXCEPT !.name = PyStr(""), !.category = PyStr("")]

RoutedBodies == {Fido, Blank}

\* the pet id in the path, for the rules that have one
RoutedIds(rule) == IF rule = "/pets" THEN {NoneId} ELSE PathIds

Dispatch ==
    \E method \in Methods, rule \in Rules, data \in RoutedBodies :
        \E pet_id \in RoutedIds(rule) :
            /\ step < MaxRoutingSteps
            /\ Respond([Request(match(method, rule), pet_id, JsonHeaders, data)
                            EXCEPT !.method = method, !.rule = rule],
                       dispatch_request(method, rule, pet_id, JsonHeaders, data,
                                        session, db, nextId))

NextRouting == Dispatch

SpecRouting == Init /\ [][NextRouting]_vars

(***************************************************************************)
(* The repository on its own: Pet.create and Pet.update called on           *)
(* instances, as the model tests call them.  An instance is persistent      *)
(* (what a query returned, then assigned to) or transient (what PetFactory  *)
(* built, with the id of the factory's sequence or with id = None).         *)
(***************************************************************************)
\* calls made in one behaviour of SpecRepository
MaxRepositorySteps == 3

\* the ids that PetFactory's sequence gives, and None
FactoryIds == {NoneId, 0, 1}

\* PetFactory(), with the id assigned afterwards where the caller does
FactoryPets ==
    {[id |-> i, name |-> PyStr("fido"), category |-> PyStr(c),
      available |-> PyBool(TRUE), gender |-> Gender("MALE"),
      birthday |-> Date(2020, 1, 1)] : i \in FactoryIds, c \in {"dog", "cat"}}

\* the outcome of a repository call: no HTTP response
Called(c) ==
    Outcome(0, c.raised, NoBody, {}, NoneId, c.db, c.nextId, c.session,
            IF c.raised = "none" THEN
                LET ids == {p.id : p \in c.added} IN
                IF ids = {} THEN <<>> ELSE <<CHOOSE i \in ids : TRUE>>
            ELSE <<>>)

CallCreate ==
    \E self \in FactoryPets :
        /\ step < MaxRepositorySteps
        /\ Respond([Request("Pet.create", self.id, {}, NoBody) EXCEPT !.self = self],
                   Called(create(self, session, db, nextId)))

\* pet.category = "k9"; pet.update() on an instance a query returned
CallUpdatePersistent ==
    \E r \in visible(session, db) :
        LET self == [r EXCEPT !.category = PyStr("k9")] IN
        /\ step < MaxRepositorySteps
        /\ Respond([Request("Pet.update", self.id, {}, NoBody) EXCEPT !.self = self],
                   Called(update(self, modified(session, self), db, nextId)))

\* pet.update() on an instance that no session holds
CallUpdateTransient ==
    \E self \in FactoryPets :
        /\ step < MaxRepositorySteps
        /\ Respond([Request("Pet.update", self.id, {}, NoBody) EXCEPT !.self = self],
                   Called(update(self, session, db, nextId)))

NextRepository ==
    \/ CallCreate
    \/ CallUpdatePersistent
    \/ CallUpdateTransient

SpecRepository == Init /\ [][NextRepository]_vars

(***************************************************************************)
(* Concurrency: two workers, each with its own db.session, serve requests   *)
(* on one stored pet side by side.  A Purchase is three steps (find, the    *)
(* availability test, update); the steps of the two workers interleave.     *)
(* The database is PostgreSQL at READ COMMITTED: a query sees the committed *)
(* rows and the session's own writes, an UPDATE of a row that another open  *)
(* transaction has written waits until that transaction ends.               *)
(***************************************************************************)
\* requests handled in one behaviour of SpecConcurrent, the Create of the
\* initial state included
MaxConcurrentSteps == 5

\* the store after POST /pets with the body Fido on the empty store
AfterCreate == create_pets(JsonHeaders, Fido, CleanSession, {}, 1)

InitConcurrent ==
    /\ inflight = [w \in Workers |-> Idle(CleanSession, {})]
    /\ db = AfterCreate.db
    /\ nextId = AfterCreate.nextId
    /\ session = CleanSession
    /\ scope \in {"request", "process"}
    /\ issued = AfterCreate.issued
    /\ req = Request("create", NoneId, JsonHeaders, Fido)
    /\ resp = [status |-> AfterCreate.status, raised |-> AfterCreate.raised,
               body |-> AfterCreate.body, results |-> AfterCreate.results,
               location |-> AfterCreate.location]
    /\ step = 1

\* the rows a flush of the session writes
flushed(s) == IF s.inactive THEN {} ELSE {p.id : p \in s.dirty}

\* no other worker's open transaction has written one of the rows
Free(w, ids) == \A v \in Workers \ {w} : inflight[v].locks \cap ids = {}

\* the rows that Pet.find makes the session write: none when the session
\* holds the instance, the modified instances otherwise
find_flushes(s, pet_id) ==
    IF \E p \in s.dirty : p.id = pet_id THEN {} ELSE flushed(s)

\* the locks of a transaction after a statement: none once it is rolled back
held(s, locks) == IF s.inactive THEN {} ELSE locks

\* the worker goes on with the request
Continue(w, pc, pet, s, locks) ==
    /\ inflight' = [inflight EXCEPT ![w] =
                        [@ EXCEPT !.pc = pc, !.pet = pet, !.session = s,
                                  !.locks = held(s, locks)]]
    /\ UNCHANGED <<db, nextId, session, scope, issued, req, resp, step>>

\* the worker sends the response; a context of the request's own is torn
\* down, which rolls back and removes the session
Finish(w, status, s, locks, database) ==
    /\ inflight' = [inflight EXCEPT ![w] =
           [@ EXCEPT !.pc = "idle", !.status = status,
                     !.session = IF scope = "request" THEN CleanSession ELSE s,
                     !.locks = IF scope = "request" THEN {} ELSE held(s, locks),
                     !.sold = IF @ = 0 /\ inflight[w].op = "purchase"
                                      /\ status = HTTP_200_OK
                              THEN 1 ELSE @]]
    /\ db' = database
    /\ UNCHANGED <<nextId, session, scope, issued, req, resp, step>>

\* a request arrives at an idle worker
Accept(w) ==
    \E op \in {"purchase", "update", "list"}, pet_id \in PathIds :
        /\ inflight[w].pc = "idle"
        /\ step < MaxConcurrentSteps
        /\ op = "list" => pet_id = 0
        /\ step' = step + 1
        /\ inflight' = [inflight EXCEPT ![w] =
               [@ EXCEPT !.pc = IF op = "purchase" THEN "find" ELSE "run",
                         !.op = op, !.pet_id = pet_id, !.pet = Pet, !.status = 0,
                         !.updates = IF op = "update" THEN 1 ELSE @]]
        /\ UNCHANGED <<db, nextId, session, scope, issued, req, resp>>

\* purchase_pets, line 203: pet = Pet.find(pet_id), and the 404
PurchaseFind(w) ==
    LET me == inflight[w]
        f == find(me.session, db, me.pet_id)
        locks == me.locks \cup find_flushes(me.session, me.pet_id)
    IN  /\ me.pc = "find"
        /\ Free(w, find_flushes(me.session, me.pet_id))
        /\ IF f.raised # "none"
           THEN Finish(w, error_status(f.raised), f.session, locks, db)
           ELSE IF ~f.found
           THEN Finish(w, HTTP_404_NOT_FOUND, f.session, locks, db)
           ELSE Continue(w, "check", f.pet, f.session, locks)

\* purchase_pets, line 208: if not pet.available, and the 409
PurchaseCheck(w) ==
    LET me == inflight[w] IN
        /\ me.pc = "check"
        /\ IF me.pet.available # PyBool(TRUE)
           THEN Finish(w, HTTP_409_CONFLICT, me.session, me.locks, db)
           ELSE Continue(w, "update", me.pet, me.session, me.locks)

\* purchase_pets, lines 217-218: pet.available = False; pet.update()
PurchaseUpdate(w) ==
    LET me == inflight[w]
        pet == [me.pet EXCEPT !.available = PyBool(FALSE)]
        s == modified(me.session, pet)
        u == update(pet, s, db, nextId)
    IN  /\ me.pc = "update"
        /\ Free(w, flushed(s))
        /\ Finish(w, IF u.raised # "none" THEN error_status(u.raised) ELSE HTTP_200_OK,
                  u.session, {}, u.db)

\* a body that deserialize rejects at "gender", after it has assigned a new
\* name and the category and available of Fido
Renaming == [Fido EXCEPT !.name = PyStr("rex"), !.gender = PyStr("male")]

\* the session after assignments to an instance: the instance is written by
\* the next flush only if a value differs from the one that was loaded
net_change(before, after, database) ==
    [after EXCEPT !.dirty = {p \in @ : p \in before.dirty \/ p \notin database}]

\* update_pets with the body that deserialize rejects
RunUpdate(w) ==
    LET me == inflight[w]
        out == update_pets(me.pet_id, JsonHeaders, Renaming, me.session, db, nextId)
    IN  /\ me.pc = "run"
        /\ me.op = "update"
        /\ Free(w, find_flushes(me.session, me.pet_id))
        /\ Finish(w, out.status, net_change(me.session, out.session, db),
                  me.locks \cup find_flushes(me.session, me.pet_id), out.db)

\* list_pets without a filter: Pet.all() flushes what the session holds as
\* modified and reads the table
RunList(w) ==
    LET me == inflight[w]
        out == list_pets(NoArgs, me.session, db, nextId)
    IN  /\ me.pc = "run"
        /\ me.op = "list"
        /\ Free(w, flushed(me.session))
        /\ Finish(w, out.status, out.session,
                  me.locks \cup flushed(me.session), out.db)

\* the next statement of the request the worker is handling
Proceed(w) ==
    \/ PurchaseFind(w)
    \/ PurchaseCheck(w)
    \/ PurchaseUpdate(w)
    \/ RunUpdate(w)
    \/ RunList(w)

NextConcurrent ==
    \E w \in Workers :
        \/ Accept(w)
        \/ Proceed(w)

SpecConcurrent == InitConcurrent /\ [][NextConcurrent]_vars

\* a worker that can execute its next statement does so: each worker is a
\* process of its own, scheduled by the operating system
FairSpecConcurrent ==
    SpecConcurrent /\ \A w \in Workers : WF_vars(Proceed(w))

(***************************************************************************)
(* Properties.  A property of a request is an action property: it relates  *)
(* the store before the request (db) to the request handled (req'), the    *)
(* response (resp') and the store afterwards (db').                        *)
(***************************************************************************)
Ids(database) == {r.id : r \in database}

Stored(database, pet_id) == {r \in database : r.id = pet_id}

Others(database, pet_id) == {r \in database : r.id # pet_id}

\* the request carries Content-Type: application/json
Json(headers) == <<"Content-Type", "application/json">> \in headers

\* a body with every key and a value of the documented type under each
ValidBody(data) ==
    /\ data.shape = "dict"
    /\ data.name.type = "str"
    /\ data.category.type = "str"
    /\ data.available.type = "bool"
    /\ data.gender.type = "str" /\ data.gender.val \in GenderNames
    /\ data.birthday.type = "str" /\ data.birthday.val \in IsoStrings

\* two JSON objects agree on the five keys a client supplies
SameFields(a, b) ==
    /\ a.name = b.name
    /\ a.category = b.category
    /\ a.available = b.available
    /\ a.gender = b.gender
    /\ a.birthday = b.birthday

\* C1: PUT /pets/{id}/purchase answers by the stored pet: 404 when no pet with
\* that id is stored, 409 when the stored pet is not available, 200 when it is
\* available; after a 200 the stored pet is not available, and a 404 or a 409
\* leaves the store unchanged.
C1_PurchaseAnswersByStoredPet ==
    [][req'.op = "purchase" =>
        LET before == Stored(db, req'.pet_id) IN
        /\ before = {} => resp'.status = HTTP_404_NOT_FOUND /\ db' = db
        /\ (\E r \in before : r.available = PyBool(FALSE)) =>
               resp'.status = HTTP_409_CONFLICT /\ db' = db
        /\ (\E r \in before : r.available = PyBool(TRUE)) =>
               /\ resp'.status = HTTP_200_OK
               /\ Stored(db', req'.pet_id) # {}
               /\ \A r \in Stored(db', req'.pet_id) : r.available = PyBool(FALSE)
    ]_vars

\* C2: DELETE /pets/{id} returns 204 with an empty body whether or not the pet
\* is stored (so twice in a row as well), removes at most one pet and none of
\* another id, and a GET of the id afterwards returns 404.
C2_DeleteAlways204 ==
    [][req'.op = "delete" =>
        /\ resp'.status = HTTP_204_NO_CONTENT
        /\ resp'.body = NoBody
        /\ Cardinality(db) - Cardinality(db') \in {0, 1}
        /\ Ids(Others(db', req'.pet_id)) = Ids(Others(db, req'.pet_id))
        /\ get_pets(req'.pet_id, session', db', nextId').status = HTTP_404_NOT_FOUND
    ]_vars

\* C3: POST /pets with Content-Type application/json and a valid body returns
\* 201, adds exactly one pet under an id the server assigned, names that id in
\* Location, and a GET of it returns 200 with the posted name, category,
\* available, gender and birthday.
C3_CreateValidReturns201 ==
    [][(req'.op = "create" /\ Json(req'.headers) /\ ValidBody(req'.data)) =>
        /\ resp'.status = HTTP_201_CREATED
        /\ Cardinality(db') = Cardinality(db) + 1
        /\ resp'.location \notin Ids(db)
        /\ Ids(db') = Ids(db) \cup {resp'.location}
        /\ LET g == get_pets(resp'.location, session', db', nextId') IN
           g.status = HTTP_200_OK /\ SameFields(g.body, req'.data)
    ]_vars

\* C4: no two stored pets have the same id, and the ids the creates assigned
\* are strictly increasing in the order of assignment, so the id of a deleted
\* pet is never assigned again.
C4_IdsUniqueAndIncreasing ==
    /\ \A r1, r2 \in db : r1.id = r2.id => r1 = r2
    /\ \A i, j \in 1 .. Len(issued) : i < j => issued[i] < issued[j]
    /\ \A r \in db : \E i \in 1 .. Len(issued) : issued[i] = r.id

\* a pet was created, deleted, and another pet created after it
C4_CreatedAfterDelete ==
    /\ Len(issued) >= 2
    /\ issued[1] \notin Ids(db)
    /\ issued[Len(issued)] \in Ids(db)

\* the "id" values a client may put in a body
BodyIds == {Missing, PyInt(1), PyInt(2)}

\* C5: the "id" of a body has no effect: deserialize leaves the id of the pet
\* as it was, Create and Update produce the same response and the same store
\* whatever "id" the body carries, a created pet gets the next id of the
\* server's sequence, and an Update adds no id to the store.
C5_BodyIdHasNoEffect ==
    [][(req'.op \in {"create", "update"}) =>
        /\ \A self \in db \cup {Pet} :
               deserialize(self, req'.data).pet.id = self.id
        /\ \A v \in BodyIds :
               LET other == [req'.data EXCEPT !.id = v] IN
               IF req'.op = "create"
               THEN create_pets(req'.headers, other, session, db, nextId)
                    = create_pets(req'.headers, req'.data, session, db, nextId)
               ELSE update_pets(req'.pet_id, req'.headers, other, session, db, nextId)
                    = update_pets(req'.pet_id, req'.headers, req'.data, session, db, nextId)
        /\ (req'.op = "create" /\ resp'.status = HTTP_201_CREATED) =>
               resp'.location = nextId /\ Ids(db') = Ids(db) \cup {nextId}
        /\ req'.op = "update" =>
               Ids(db') = Ids(db) /\ {p.id : p \in session'.dirty} \subseteq Ids(db)
    ]_vars

\* a Create whose body carried "id": 2 stored the pet under another id
C5_CreatedUnderServerId ==
    /\ req.op = "create"
    /\ req.data.id = PyInt(2)
    /\ resp.status = HTTP_201_CREATED
    /\ resp.location # 2
    /\ Stored(db, resp.location) # {}
    /\ Stored(db, 2) = {}

\* C6: PUT /pets/{id} with Content-Type application/json and a valid body on
\* a stored pet returns 200, stores the body's name, category, available,
\* gender and birthday under the path id whatever "id" the body carries, and
\* leaves the number of pets and every other pet unchanged.
C6_UpdateReplacesOnlyThatPet ==
    [][(/\ req'.op = "update"
        /\ Json(req'.headers)
        /\ ValidBody(req'.data)
        /\ Stored(db, req'.pet_id) # {}) =>
        /\ resp'.status = HTTP_200_OK
        /\ resp'.body.id = PyInt(req'.pet_id)
        /\ Cardinality(Stored(db', req'.pet_id)) = 1
        /\ \A r \in Stored(db', req'.pet_id) :
               serialize(r).raised = "none" /\ SameFields(serialize(r).body, req'.data)
        /\ Cardinality(db') = Cardinality(db)
        /\ Others(db', req'.pet_id) = Others(db, req'.pet_id)
    ]_vars

\* C7: PUT /pets/{id} with Content-Type application/json for an id that is
\* not stored returns 404 whatever the body is and leaves the store unchanged.
C7_UpdateAbsentReturns404 ==
    [][(req'.op = "update" /\ Json(req'.headers) /\ Stored(db, req'.pet_id) = {}) =>
        resp'.status = HTTP_404_NOT_FOUND /\ db' = db
    ]_vars

\* C8: a Create or an Update without a Content-Type header, or with one that
\* is not exactly "application/json", returns 415 whatever the body is, and
\* leaves the store, the sequence and the session as they were.
C8_WrongContentTypeReturns415 ==
    [][(req'.op \in {"create", "update"} /\ ~Json(req'.headers)) =>
        /\ resp'.status = HTTP_415_UNSUPPORTED_MEDIA_TYPE
        /\ db' = db
        /\ nextId' = nextId
        /\ session' = session
    ]_vars

\* an Update of a stored pet with "application/json; charset=utf-8" got 415
C8_CharsetRejected ==
    /\ req.op = "update"
    /\ req.headers = Header("Content-Type", "application/json; charset=utf-8")
    /\ Stored(db, req.pet_id) # {}
    /\ resp.status = HTTP_415_UNSUPPORTED_MEDIA_TYPE

\* the body has an "available" that is no boolean
AvailableNotBool(data) ==
    /\ data.shape = "dict"
    /\ data.available # Missing
    /\ data.available.type # "bool"

\* C9: deserialize raises DataValidationError whenever "available" is not a
\* boolean and assigns no cast of it to the pet; a Create with such a body
\* returns 400 and stores no pet.
C9_AvailableMustBeBoolean ==
    [][(req'.op \in {"create", "update"} /\ AvailableNotBool(req'.data)) =>
        /\ \A self \in db \cup {Pet} :
               LET d == deserialize(self, req'.data) IN
               d.raised = "DataValidationError" /\ d.pet.available = self.available
        /\ (req'.op = "create" /\ Json(req'.headers)) =>
               /\ resp'.raised = "DataValidationError"
               /\ resp'.status = HTTP_400_BAD_REQUEST
               /\ db' = db
               /\ nextId' = nextId
    ]_vars

\* a Create with "available": "true" got 400 while a pet was stored
C9_StringTrueRejected ==
    /\ req.op = "create"
    /\ Json(req.headers)
    /\ req.data.available = PyStr("true")
    /\ resp.status = HTTP_400_BAD_REQUEST
    /\ db # {}

\* the body has a "gender" that is none of the three member names
GenderNotMember(data) ==
    /\ data.shape = "dict"
    /\ data.gender # Missing
    /\ ~(data.gender.type = "str" /\ data.gender.val \in GenderNames)

\* C10: deserialize raises DataValidationError for every "gender" that is not
\* exactly "MALE", "FEMALE" or "UNKNOWN", a string that names another
\* attribute of the enumeration type included; a Create with such a body
\* returns 400 and stores no pet.
C10_GenderMustBeMemberName ==
    [][(req'.op = "create" /\ Json(req'.headers) /\ GenderNotMember(req'.data)) =>
        /\ deserialize(Pet, req'.data).raised = "DataValidationError"
        /\ resp'.status = HTTP_400_BAD_REQUEST
        /\ db' = db
    ]_vars

\* the body has a "birthday" that is no ISO-8601 date string
BirthdayNotIso(data) ==
    /\ data.shape = "dict"
    /\ data.birthday # Missing
    /\ ~(data.birthday.type = "str" /\ data.birthday.val \in IsoStrings)

\* C11: deserialize raises DataValidationError whenever "birthday" is not a
\* valid ISO-8601 date string, malformed string or non-string alike, so a
\* Create, or an Update of a stored pet, with such a body returns 400.
C11_BirthdayMustBeIsoDate ==
    [][(req'.op \in {"create", "update"} /\ Json(req'.headers)
        /\ BirthdayNotIso(req'.data)) =>
        /\ deserialize(Pet, req'.data).raised = "DataValidationError"
        /\ (req'.op = "create" \/ Stored(db, req'.pet_id) # {}) =>
               resp'.status = HTTP_400_BAD_REQUEST
    ]_vars

\* the required keys, in the order deserialize reads them
Keys == <<"name", "category", "available", "gender", "birthday">>

\* the rule of highest priority that the body violates
ViolatedRule(data) ==
    IF data.shape # "dict" THEN "mapping"
    ELSE IF \E i \in 1 .. Len(Keys) : data[Keys[i]] = Missing THEN "missing"
    ELSE IF data.available.type # "bool" THEN "available"
    ELSE IF ~(data.gender.type = "str" /\ data.gender.val \in GenderNames)
    THEN "gender"
    ELSE IF ~(data.birthday.type = "str" /\ data.birthday.val \in IsoStrings)
    THEN "birthday"
    ELSE "none"

\* the rule that the error raised by deserialize reports
ReportedRule(d) ==
    CASE d.raised = "none" -> "none"
      [] d.msg = "bad or no data" -> "mapping"
      [] d.msg \in {"missing " \o Keys[i] : i \in 1 .. Len(Keys)} -> "missing"
      [] d.msg = "Invalid type for boolean [available]" -> "available"
      [] d.msg = "Invalid attribute" -> "gender"
      [] OTHER -> "birthday"

\* C12: when a body violates several rules, deserialize reports the violated
\* rule of highest priority: not a mapping, missing key, non-boolean
\* available, invalid gender, invalid birthday; a non-boolean available with
\* a missing gender or birthday is reported as a missing key.
C12_HighestPriorityRuleReported ==
    [][(req'.op \in {"create", "update"}) =>
        LET d == deserialize(Pet, req'.data)
            rule == ViolatedRule(req'.data)
        IN  IF rule = "birthday" THEN d.raised # "none"
            ELSE ReportedRule(d) = rule
    ]_vars

\* the body is a mapping that lacks at least one required key
LacksKey(data) ==
    /\ data.shape = "dict"
    /\ \E i \in 1 .. Len(Keys) : data[Keys[i]] = Missing

C14_NonMappingRejected ==
    [][(req'.op \in {"create", "update"} /\ req'.data.shape \in Shapes) =>
        /\ \A self \in db \cup {Pet} :
               LET d == deserialize(self, req'.data) IN
               d.raised = "DataValidationError" /\ d.pet = self
        /\ req'.op = "create" => resp'.raised = "DataValidationError"
    ]_vars

\* an Update of a stored pet with a JSON array as body raised DataValidationError
C14_ArrayRejected ==
    /\ req.op = "update"
    /\ req.data.shape = "list"
    /\ Stored(db, req.pet_id) # {}
    /\ resp.raised = "DataValidationError"

\* a query parameter counts as supplied when it is present with a non-empty
\* value
Supplied(v) == v # None /\ v # PyStr("")

\* the query string with the supplied parameter of highest precedence alone
HighestOnly(args) ==
    IF Supplied(args.category) THEN Args(args.category, None, None, None)
    ELSE IF Supplied(args.name) THEN Args(None, args.name, None, None)
    ELSE IF Supplied(args.available) THEN Args(None, None, args.available, None)
    ELSE Args(None, None, None, args.gender)

\* C15: GET /pets applies one filter, chosen by category > name > available >
\* gender: with several parameters supplied the response is the one that the
\* parameter of highest precedence gives alone, and with none supplied every
\* stored pet is returned.
C15_HighestPrecedenceFilterOnly ==
    [][req'.op = "list" =>
        LET alone == list_pets(HighestOnly(req'.args), session, db, nextId) IN
        /\ resp'.status = alone.status
        /\ resp'.results = alone.results
        /\ req'.args = NoArgs =>
               /\ resp'.status = HTTP_200_OK
               /\ resp'.results = {serialize(r).body : r \in db}
    ]_vars

\* the query string supplies at most one parameter
SingleFilter(args) ==
    Cardinality({k \in {"category", "name", "available", "gender"} :
                    Supplied(args[k])}) <= 1

\* the stored pet has the value the query string asks for
Matches(r, args) ==
    /\ Supplied(args.category) => r.category = args.category
    /\ Supplied(args.name) => r.name = args.name
    /\ Supplied(args.available) =>
           r.available = PyBool(args.available.val \in {"true", "True", "Yes", "1"})
    /\ Supplied(args.gender) =>
           /\ args.gender.val \in {"female", "Female", "FEMALE"}
           /\ r.gender = Gender("FEMALE")

\* C16: GET /pets with a single filter returns 200 with exactly the
\* serializations of the stored pets whose field equals the filter value,
\* and with no filter one entry per stored pet.
C16_FilterReturnsExactlyMatches ==
    [][(req'.op = "list" /\ SingleFilter(req'.args)) =>
        /\ resp'.status = HTTP_200_OK
        /\ resp'.results = {serialize(r).body : r \in {x \in db : Matches(x, req'.args)}}
    ]_vars

\* the spellings of a query value that differ in case only
SameIgnoringCase(v) ==
    CASE v \in {"true", "True"} -> {"true", "True"}
      [] v \in {"female", "Female", "FEMALE"} -> {"female", "Female", "FEMALE"}
      [] OTHER -> {v}

\* C17: the "available" value is parsed case-insensitively, "true", "yes" and
\* "1" selecting available pets and every other non-empty value unavailable
\* ones; the "gender" value is uppercased, so "female", "Female" and "FEMALE"
\* select the same pets.
C17_QueryValuesIgnoreCase ==
    [][req'.op = "list" =>
        LET args == req'.args
            out == list_pets(args, session, db, nextId)
            wanted == args.available.val \in {"true", "True", "Yes", "1"}
        IN
        /\ Supplied(args.available) =>
               /\ \A v \in SameIgnoringCase(args.available.val) \cup
                           {IF wanted THEN "true" ELSE "false"} :
                      list_pets([args EXCEPT !.available = PyStr(v)],
                                session, db, nextId) = out
               /\ (args.category = None /\ args.name = None
                   /\ resp'.status = HTTP_200_OK) =>
                      \A pet \in resp'.results : pet.available = PyBool(wanted)
        /\ Supplied(args.gender) =>
               /\ \A v \in SameIgnoringCase(args.gender.val) :
                      list_pets([args EXCEPT !.gender = PyStr(v)],
                                session, db, nextId) = out
               /\ (args = Args(None, None, None, args.gender)
                   /\ resp'.status = HTTP_200_OK) =>
                      \A pet \in resp'.results : pet.gender = PyStr(upper(args.gender.val))
    ]_vars

\* GET /pets?available=Yes returned the available pet of two stored pets
C17_YesSelectsAvailable ==
    /\ req.op = "list"
    /\ req.args = Args(None, None, PyStr("Yes"), None)
    /\ resp.status = HTTP_200_OK
    /\ Cardinality(db) = 2
    /\ Cardinality(resp.results) = 1

\* C18: GET /pets never fails: for every store and every combination of
\* category, name, available and gender values, a gender that names no
\* member included, it returns 200 with an array.
C18_ListNeverFails ==
    [][req'.op = "list" => resp'.status = HTTP_200_OK]_vars

\* C19: GET /pets/{id} returns 200 with the serialization of the stored pet
\* when the id is stored and 404 otherwise, and neither Read nor List changes
\* the store.
C19_ReadReturnsStoredPet ==
    [][req'.op \in {"get", "list"} =>
        /\ db' = db
        /\ req'.op = "get" =>
               IF Stored(db, req'.pet_id) = {}
               THEN resp'.status = HTTP_404_NOT_FOUND
               ELSE /\ resp'.status = HTTP_200_OK
                    /\ \E r \in Stored(db, req'.pet_id) : resp'.body = serialize(r).body
    ]_vars

\* pets with valid fields, beyond the stored ones
ValidPets ==
    {[id |-> i, name |-> PyStr(n), category |-> PyStr("dog"), available |-> PyBool(a),
      gender |-> Gender(g), birthday |-> ParseIso(b)] :
        i \in {7}, n \in {"fido"}, a \in BOOLEAN, g \in GenderNames,
        b \in IsoStrings}

\* C20: for every pet P with valid fields, deserialize(serialize(P)) on a
\* fresh pet gives a pet with P's name, category, available, gender and
\* birthday, and an unset id whatever P's id is.
C20_SerializeDeserializeRoundTrip ==
    \A P \in db \cup ValidPets :
        LET json == serialize(P)
            d == deserialize(Pet, json.body)
        IN  /\ json.raised = "none"
            /\ d.raised = "none"
            /\ d.pet = [P EXCEPT !.id = NoneId]

\* two pets of different gender and birthday are stored
C20_TwoPetsStored ==
    /\ Cardinality(db) = 2
    /\ \E P, Q \in db : P.gender # Q.gender /\ P.birthday # Q.birthday

\* C21: every stored pet has a non-empty string as name and as category, a
\* boolean as available, a member of Gender as gender and a calendar date as
\* birthday.
C21_StoredPetsSatisfyDataModel ==
    \A r \in db :
        /\ r.name.type = "str" /\ r.name.val # ""
        /\ r.category.type = "str" /\ r.category.val # ""
        /\ r.available.type = "bool"
        /\ r.gender \in {Gender(n) : n \in GenderNames}
        /\ r.birthday.type = "date"

\* the methods that the operations of the service define for each path
Operations(rule) ==
    CASE rule = "/pets" -> {"GET", "POST"}
      [] rule = "/pets/<int:pet_id>" -> {"GET", "PUT", "DELETE"}
      [] rule = "/pets/<int:pet_id>/purchase" -> {"PUT"}

\* the methods the framework answers on a path without an operation of the
\* service: OPTIONS everywhere, HEAD where GET is defined
Automatic(rule) ==
    {"OPTIONS"} \cup (IF "GET" \in Operations(rule) THEN {"HEAD"} ELSE {})

\* C23: a request whose method is not defined for its path, and is not one
\* the framework answers by itself (OPTIONS, and HEAD where GET is defined),
\* returns 405 and leaves the store and the id sequence unchanged.
C23_UndefinedMethodReturns405 ==
    [][req'.method \notin (Operations(req'.rule) \cup Automatic(req'.rule)) =>
        /\ resp'.status = HTTP_405_METHOD_NOT_ALLOWED
        /\ db' = db
        /\ nextId' = nextId
    ]_vars

\* PUT /pets was answered with 405 while a pet was stored
C23_PutOnCollectionRejected ==
    /\ req.method = "PUT"
    /\ req.rule = "/pets"
    /\ resp.status = HTTP_405_METHOD_NOT_ALLOWED
    /\ db # {}

\* C23 as stated: every request whose method is not one of the operations of
\* its path returns 405 and leaves the store unchanged.
C23_EveryOtherMethodReturns405 ==
    [][req'.method \notin Operations(req'.rule) =>
        /\ resp'.status = HTTP_405_METHOD_NOT_ALLOWED
        /\ db' = db
    ]_vars

\* C22: update(pet) raises DataValidationError and writes nothing exactly
\* when pet.id is not set; for a pet whose id is set it raises nothing, the
\* row of that id holds the pet's fields afterwards, and the stored ids and
\* the other rows are as before.
C22_UpdateFailsExactlyWithoutId ==
    [][req'.op = "Pet.update" =>
        LET self == req'.self IN
        /\ (resp'.raised = "DataValidationError") <=> (self.id = NoneId)
        /\ resp'.raised = "DataValidationError" => db' = db
        /\ self.id # NoneId =>
               /\ resp'.raised = "none"
               /\ Stored(db', self.id) = {self}
               /\ Ids(db') = Ids(db)
               /\ Others(db', self.id) = Others(db, self.id)
    ]_vars

\* C25: the available field of a stored pet goes from false to true only in
\* a step that is an Update of that pet answered with 200 whose body has
\* available true; while it is stored as false, a GET of the pet shows
\* available false and a Purchase of it returns 409.
C25_AvailableAgainOnlyByUpdate ==
    [][/\ \A r \in db : \A q \in Stored(db', r.id) :
              (r.available = PyBool(FALSE) /\ q.available = PyBool(TRUE)) =>
                  /\ req'.op = "update"
                  /\ req'.pet_id = r.id
                  /\ resp'.status = HTTP_200_OK
                  /\ req'.data.available = PyBool(TRUE)
       /\ \A r \in Stored(db, req'.pet_id) :
              r.available = PyBool(FALSE) =>
                  /\ req'.op = "get" =>
                         /\ resp'.status = HTTP_200_OK
                         /\ resp'.body.available = PyBool(FALSE)
                  /\ req'.op = "purchase" => resp'.status = HTTP_409_CONFLICT
    ]_vars

\* C26: an Update answered with 400 or 415 leaves the store unchanged, and
\* no later request persists what it assigned: a stored pet changes only in
\* a step that is an Update of that pet answered with 200, to the fields of
\* that request's body, or a Purchase of that pet answered with 200, in its
\* available field alone.
C26_RejectedUpdateNeverPersisted ==
    [][/\ (/\ req'.op = "update"
           /\ resp'.status \in {HTTP_400_BAD_REQUEST, HTTP_415_UNSUPPORTED_MEDIA_TYPE})
              => db' = db
       /\ \A r \in db : \A q \in Stored(db', r.id) :
              q # r =>
                  \/ /\ req'.op = "update"
                     /\ req'.pet_id = r.id
                     /\ resp'.status = HTTP_200_OK
                     /\ SameFields(serialize(q).body, req'.data)
                  \/ /\ req'.op = "purchase"
                     /\ req'.pet_id = r.id
                     /\ resp'.status = HTTP_200_OK
                     /\ q = [r EXCEPT !.available = PyBool(FALSE)]
    ]_vars

\* C27: an Update that fails several checks is answered by the first one in
\* the order content type, existence, body: 415 when the Content-Type is not
\* application/json whatever the id and the body are, 404 when the
\* Content-Type is application/json, the id is not stored and the body is
\* invalid.
C27_UpdateChecksInOrder ==
    [][req'.op = "update" =>
        /\ (/\ ~Json(req'.headers)
            /\ (Stored(db, req'.pet_id) = {} \/ ~ValidBody(req'.data)))
               => resp'.status = HTTP_415_UNSUPPORTED_MEDIA_TYPE
        /\ (/\ Json(req'.headers)
            /\ Stored(db, req'.pet_id) = {}
            /\ ~ValidBody(req'.data))
               => resp'.status = HTTP_404_NOT_FOUND
    ]_vars

\* C28: a Purchase answered with 200 leaves the stored ids, every other pet
\* and the id, name, category, gender and birthday of the purchased pet as
\* they were.
C28_PurchaseChangesOnlyAvailable ==
    [][(req'.op = "purchase" /\ resp'.status = HTTP_200_OK) =>
        /\ Ids(db') = Ids(db)
        /\ Others(db', req'.pet_id) = Others(db, req'.pet_id)
        /\ \A r \in Stored(db, req'.pet_id) : \A q \in Stored(db', req'.pet_id) :
               q = [r EXCEPT !.available = q.available]
    ]_vars

\* the query value with the empty string read as no value
NonEmpty(v) == IF v = PyStr("") THEN None ELSE v

\* C29: GET /pets answers a query string in which a parameter has an empty
\* value as it answers the same query string without that parameter, and a
\* query string in which no parameter has a non-empty value with every
\* stored pet.
C29_EmptyValueIsAbsent ==
    [][req'.op = "list" =>
        LET args == req'.args
            without == list_pets(Args(NonEmpty(args.category), NonEmpty(args.name),
                                      NonEmpty(args.available), NonEmpty(args.gender)),
                                 session, db, nextId)
        IN
        /\ resp'.status = without.status
        /\ resp'.results = without.results
        /\ (\A k \in {"category", "name", "available", "gender"} : ~Supplied(args[k]))
               => /\ resp'.status = HTTP_200_OK
                  /\ resp'.results = {serialize(r).body : r \in db}
    ]_vars

\* C24: as long as no Update has been accepted, at most one of the Purchase
\* requests on the pet stored with available true has been answered with
\* 200, however the find, test and update steps of the workers interleave.
C24_AtMostOnePurchaseSucceeds ==
    (\A w \in Workers : inflight[w].updates = 0) =>
        Cardinality({w \in Workers : inflight[w].sold > 0}) <= 1

\* C30: every request a worker has accepted is answered: a worker that is
\* handling a request is eventually idle again, with the status of the
\* response set, whatever the other worker does or does not do.
C30_EveryRequestCompletes ==
    \A w \in Workers :
        (inflight[w].pc # "idle") ~> (inflight[w].pc = "idle" /\ inflight[w].status # 0)

====
